---- MODULE Spec2Model ----
(***************************************************************************)
(* Model of the LinkedIn post generator agent:                             *)
(*   - LinkedInPostAgent.generate_posts_stream and the transport's         *)
(*     generate_stream that forwards its events,                           *)
(*   - LinkedInPostAgent._search_with_gemini,                              *)
(*   - LinkedInPostAgent._parse_posts and PostParser.parse,                *)
(*   - LinkedInPostAgent.refine_post and get_trending_topics,              *)
(*   - AgentEvent, its factories and to_dict,                              *)
(*   - PromptLoader.                                                       *)
(*                                                                         *)
(* A Python str is a sequence of tokens (TLA+ strings); the empty str is   *)
(* <<>>.  Concatenation and f-string interpolation are \o.  Raw post text  *)
(* is a sequence of chunk tokens: "M" is one match of the post split       *)
(* pattern, "W" one whitespace character, "T<n>" a run of n                *)
(* non-whitespace characters holding no match of the pattern.              *)
(***************************************************************************)
EXTENDS Integers, Sequences, FiniteSets, TLC

VARIABLES
    agent,      \* the shared LinkedInPostAgent instance: api_key, genai_client, llm
    pc,         \* per run: the suspension point of generate_posts_stream
    loc,        \* per run: the local variables of generate_posts_stream
    tasks,      \* per run: the three research search coroutines / gather children
    completed,  \* per run: the order in which the research searches finished
    events,     \* per run: the events yielded by generate_posts_stream
    wire,       \* per run: the messages yielded by the transport's generate_stream
    mock,       \* per run: what the external clients observed (call counts, last call)
    direct,     \* a direct call of _search_with_gemini: its state and result
    searchLog,  \* results returned by the finished direct search calls
    parseIn,    \* raw text handed to the parsers
    parseOut,   \* results of PostParser.parse and _parse_posts on parseIn
    op,         \* a call of refine_post or get_trending_topics under way
    opLog,      \* the finished calls of refine_post and get_trending_topics
    built,      \* the most recent AgentEvent built by a factory, and its to_dict()
    source,     \* the external prompts file: missing, malformed, or its document
    prompts_cache,    \* PromptLoader._prompts_cache
    templates_cache,  \* PromptLoader._templates_cache
    lastCall,   \* the most recent PromptLoader call: what it returned or raised,
                \* whether it went to the file, the call made before it, and the
                \* template last returned for its name before it
    loadLog     \* history of the loader: the file content its last load returned
                \* since construction or reload, and per name the last template
                \* get_template returned with the file content it was made from

vars == <<agent, pc, loc, tasks, completed, events, wire, mock,
          direct, searchLog, parseIn, parseOut, op, opLog, built,
          source, prompts_cache, templates_cache, lastCall, loadLog>>

streamVars == <<pc, loc, tasks, completed, events, wire, mock>>
searchVars == <<direct, searchLog>>
parseVars == <<parseIn, parseOut>>
opVars == <<op, opLog>>
eventVars == <<built>>
loaderVars == <<source, prompts_cache, templates_cache, lastCall, loadLog>>

(***************************************************************************)
(* Bounds                                                                  *)
(***************************************************************************)
MaxSegments == 4      \* split segments of a raw text returned by the generation model call
MaxParseSegments == 5 \* split segments of a raw text handed directly to PostParser
MaxDirectCalls == 3   \* direct calls of _search_with_gemini
MaxStyleIndex == 5    \* positions handed directly to PostParser._get_style_for_index
MaxOpCalls == 2       \* direct calls of refine_post and get_trending_topics

(***************************************************************************)
(* Python values                                                           *)
(***************************************************************************)
None == <<"<None>">>
Unset == <<"<unbound>">>

Truthy(v) == v # None /\ v # <<>>

IsStr(v) == v # None /\ v # Unset

Runs == {1, 2}
SoloRuns == {1}

ApiKeys == {None, <<>>, <<"key">>}
Fields == {<<"Healthcare">>}
Contexts == {<<"ctx">>}
Errors == {<<"timeout">>}

Last(s) == s[Len(s)]

IsPrefix(s, t) == Len(s) <= Len(t) /\ SubSeq(t, 1, Len(s)) = s

(***************************************************************************)
(* LinkedInPostAgent.__init__                                              *)
(***************************************************************************)
NewAgent(api_key) ==
    [api_key |-> api_key,
     genai_client |-> IF Truthy(api_key) THEN "client" ELSE "None",
     llm |-> IF Truthy(api_key) THEN "llm" ELSE "None"]

(***************************************************************************)
(* _search_with_gemini                                                     *)
(***************************************************************************)
NotConfiguredText == <<"API key not configured. Unable to perform web search.">>

\* outcomes of genai_client.models.generate_content and of reading response.text
SearchOutcomes(query) ==
    {[kind |-> "text", text |-> <<"results[">> \o query \o <<"]">>],
     [kind |-> "textless", text |-> None]}
    \cup {[kind |-> "raise", text |-> e] : e \in Errors}

\* `if not self.genai_client`
HasClient == agent.genai_client # "None"

\* the value _search_with_gemini returns once the underlying call is over
SearchReturn(outcome) ==
    IF outcome.kind = "raise"
    THEN <<"Search completed with limited results: ">> \o outcome.text
    ELSE outcome.text

(***************************************************************************)
(* Raw post text and the post split pattern                                *)
(***************************************************************************)
min_post_length == 50
max_posts == 3
post_styles == <<"Storytelling", "Data-Driven", "Thought Leadership">>

AgentMinLength == 50
AgentMaxPosts == 3

Marker == "M"
Whitespace == {"W"}
TextChunks == {"T49", "T50", "T51", "T60"}
Chunks == {Marker} \cup Whitespace \cup TextChunks

\* number of characters of a chunk (a marker is never measured: split removes it)
ChunkLen(c) ==
    CASE c = "T49" -> min_post_length - 1
      [] c = "T50" -> min_post_length
      [] c = "T51" -> min_post_length + 1
      [] c = "T60" -> 60
      [] OTHER -> 1

\* the texts between two matches of the pattern that the raw texts are built from
StreamSegments == {<<>>, <<"W">>, <<"T50">>, <<"W", "T51", "W">>}
ParseSegments == StreamSegments \cup {<<"T49">>, <<"T51">>, <<"T49", "W", "T49">>}

\* raw texts of the documented examples: a padded blob shorter than
\* min_post_length, and two 60-character segments each after a marker line
ExampleTexts ==
    {<<"W", "T49", "W">>,
     <<"M", "W", "T60", "W", "M", "W", "T60", "W">>}

RECURSIVE JoinSegments(_)
JoinSegments(segs) ==
    IF Len(segs) = 1 THEN Head(segs)
    ELSE Head(segs) \o <<Marker>> \o JoinSegments(Tail(segs))

\* every raw text of 1..n segments separated by matches of the pattern
RawTexts(shapes, n) ==
    {JoinSegments(segs) : segs \in UNION {[1..k -> shapes] : k \in 1..n}}

\* len(str)
RECURSIVE StrLen(_)
StrLen(s) == IF s = <<>> THEN 0 ELSE ChunkLen(Head(s)) + StrLen(Tail(s))

\* str.strip()
RECURSIVE LStrip(_)
LStrip(s) == IF s # <<>> /\ Head(s) \in Whitespace THEN LStrip(Tail(s)) ELSE s

RECURSIVE RStrip(_)
RStrip(s) ==
    IF s # <<>> /\ Last(s) \in Whitespace THEN RStrip(SubSeq(s, 1, Len(s) - 1)) ELSE s

Strip(s) == RStrip(LStrip(s))

\* re.split(post_split_pattern, raw, flags=IGNORECASE): the texts between the matches
RECURSIVE ReSplit(_)
ReSplit(s) ==
    IF \A j \in 1..Len(s) : s[j] # Marker
    THEN <<s>>
    ELSE LET i == CHOOSE j \in 1..Len(s) :
                      s[j] = Marker /\ \A h \in 1..(j - 1) : s[h] # Marker
         IN  <<SubSeq(s, 1, i - 1)>> \o ReSplit(SubSeq(s, i + 1, Len(s)))

(***************************************************************************)
(* PostParser (utils/post_parser.py)                                       *)
(***************************************************************************)
\* the style looked up one position too far
PostParser_get_style_for_index_offByOne(index) ==
    IF index + 1 < Len(post_styles)
    THEN post_styles[index + 2]
    ELSE "Variation " \o ToString(index + 1)

PostParser_get_style_for_index(index) ==
    IF index < Len(post_styles)
    THEN post_styles[index + 1]
    ELSE "Variation " \o ToString(index + 1)

\* the fallback without the `if content:` test: a post even for empty content
PostParser_fallback_parse_noTest(raw_posts) ==
    <<[id |-> 1, style |-> "Generated", content |-> Strip(raw_posts)]>>

PostParser_fallback_parse(raw_posts) ==
    LET content == IF raw_posts # <<>> THEN Strip(raw_posts) ELSE <<>>
    IN  IF content = <<>>
        THEN <<>>
        ELSE <<[id |-> 1, style |-> "Generated", content |-> content]>>

\* the loop without the `break` at max_posts
RECURSIVE ParseLoop_noBreak(_, _)
ParseLoop_noBreak(segs, posts) ==
    IF segs = <<>>
    THEN posts
    ELSE LET cleaned == Strip(Head(segs))
         IN  IF cleaned = <<>> \/ StrLen(cleaned) < min_post_length
             THEN ParseLoop_noBreak(Tail(segs), posts)
             ELSE ParseLoop_noBreak(Tail(segs),
                      Append(posts,
                             [id |-> Len(posts) + 1,
                              style |-> IF Len(posts) < Len(post_styles)
                                        THEN post_styles[Len(posts) + 1]
                                        ELSE "Variation " \o ToString(Len(posts) + 1),
                              content |-> cleaned]))

\* the for loop of PostParser.parse over the split segments
RECURSIVE ParseLoop(_, _)
ParseLoop(segs, posts) ==
    IF segs = <<>>
    THEN posts
    ELSE LET cleaned == Strip(Head(segs))
         IN  IF cleaned = <<>> \/ StrLen(cleaned) < min_post_length
             THEN ParseLoop(Tail(segs), posts)
             ELSE LET next == Append(posts,
                                  [id |-> Len(posts) + 1,
                                   style |-> PostParser_get_style_for_index(Len(posts)),
                                   content |-> cleaned])
                  IN  IF Len(next) >= max_posts
                      THEN next
                      ELSE ParseLoop(Tail(segs), next)

PostParser_parse(raw_posts) ==
    IF raw_posts = <<>> \/ Strip(raw_posts) = <<>>
    THEN PostParser_fallback_parse(raw_posts)
    ELSE LET posts == ParseLoop(ReSplit(raw_posts), <<>>)
         IN  IF posts = <<>> THEN PostParser_fallback_parse(raw_posts) ELSE posts

(***************************************************************************)
(* LinkedInPostAgent._parse_posts (linkedin_agent.py)                      *)
(***************************************************************************)
Min(a, b) == IF a <= b THEN a ELSE b

\* the for loop of _parse_posts: i is the index of the segment in the split
RECURSIVE AgentParseLoop(_, _, _)
AgentParseLoop(segs, i, posts) ==
    IF segs = <<>>
    THEN posts
    ELSE LET cleaned == Strip(Head(segs))
         IN  IF cleaned # <<>> /\ StrLen(cleaned) > AgentMinLength
             THEN AgentParseLoop(Tail(segs), i + 1,
                      Append(posts,
                             [id |-> i + 1,
                              style |-> IF i < 3
                                        THEN post_styles[Min(i, 2) + 1]
                                        ELSE "Variation " \o ToString(i + 1),
                              content |-> cleaned]))
             ELSE AgentParseLoop(Tail(segs), i + 1, posts)

\* _parse_posts returning `posts` instead of `posts[:3]`
Agent_parse_posts_noSlice(raw_posts) ==
    LET found == AgentParseLoop(ReSplit(raw_posts), 0, <<>>)
    IN  IF found = <<>>
        THEN <<[id |-> 1, style |-> "Generated", content |-> Strip(raw_posts)]>>
        ELSE found

Agent_parse_posts(raw_posts) ==
    LET found == AgentParseLoop(ReSplit(raw_posts), 0, <<>>)
        posts == IF found = <<>>
                 THEN <<[id |-> 1, style |-> "Generated", content |-> Strip(raw_posts)]>>
                 ELSE found
    IN  SubSeq(posts, 1, Min(AgentMaxPosts, Len(posts)))

(***************************************************************************)
(* Events yielded by generate_posts_stream (dict literals)                 *)
(***************************************************************************)
StageEvent(stage, message) ==
    [type |-> "stage", stage |-> stage, message |-> message]

ProgressEvent(message) ==
    [type |-> "progress", message |-> message]

ResultEvent(stage, message, data) ==
    [type |-> "result", stage |-> stage, message |-> message, data |-> data]

CompleteEvent ==
    [type |-> "complete", message |-> <<"All done! Review your posts below.">>,
     data |-> <<>>]

ErrorEvent(message) ==
    [type |-> "error", message |-> message]

(***************************************************************************)
(* AgentEvent (utils/models.py): the dataclass, its factories and to_dict. *)
(* stage and data are Optional: Nothing is None, Some(v) the value v.      *)
(***************************************************************************)
Nothing == <<>>
Some(v) == <<v>>

AgentEvent(type, message, stage, data) ==
    [type |-> type, message |-> message, stage |-> stage, data |-> data]

stage_event(stage, message) == AgentEvent("stage", message, Some(stage), Nothing)

progress_event(message) == AgentEvent("progress", message, Nothing, Nothing)

result_event(stage, message, data) ==
    AgentEvent("result", message, Some(stage), Some(data))

complete_event(message) == AgentEvent("complete", message, Nothing, Some(<<>>))

error_event(message) == AgentEvent("error", message, Nothing, Nothing)

\* the default of complete_event's message parameter
DefaultCompleteMessage == <<"Generation complete!">>

\* the dict of the keys given, with the attribute of the event under each
DictOf(e, keys) ==
    [k \in keys |-> CASE k = "type" -> e.type
                      [] k = "message" -> e.message
                      [] k = "stage" -> e.stage[1]
                      [] k = "data" -> e.data[1]]

\* to_dict testing `if self.stage:` and `if self.data:` (truthiness)
to_dict_truthy(e) ==
    DictOf(e, {"type", "message"}
              \cup (IF e.stage # Nothing /\ e.stage # Some("") THEN {"stage"} ELSE {})
              \cup (IF e.data # Nothing /\ e.data # Some(<<>>) THEN {"data"} ELSE {}))

to_dict(e) ==
    DictOf(e, {"type", "message"}
              \cup (IF e.stage # Nothing THEN {"stage"} ELSE {})
              \cup (IF e.data # Nothing THEN {"data"} ELSE {}))

\* json.dumps(event): the key/value pairs of the dict, in insertion order
KeyOrder == <<"type", "stage", "message", "data">>

JsonDumps(event) ==
    LET keys == SelectSeq(KeyOrder, LAMBDA k : k \in DOMAIN event)
    IN  [j \in 1..Len(keys) |-> <<keys[j], event[keys[j]]>>]

\* the value a serialized message carries for a key
JsonGet(msg, key) ==
    LET j == CHOOSE h \in 1..Len(msg) : msg[h][1] = key IN msg[j][2]

(***************************************************************************)
(* Queries, prompts and model outcomes                                     *)
(***************************************************************************)
TrendingQuery(field) ==
    <<"trending topics ">> \o field \o <<" 2024 2025 latest developments news">>

ResearchQueries(field) ==
    <<field \o <<" industry trends statistics 2024 2025">>,
      field \o <<" expert opinions thought leadership">>,
      field \o <<" case studies success stories">>>>

NumQueries == 3

\* texts the language model may return for each prompt
TopicsTexts == {<<>>, <<"AI agents", "\n", "Quantum">>}
ReportTexts == {<<"report A">>, <<"report B">>}
RefinedTexts == {<<"refined post">>, <<"M", "W", "T51", "W">>}

LlmTexts(prompt) ==
    CASE prompt = "trending" -> TopicsTexts
      [] prompt = "research" -> ReportTexts
      [] prompt = "generation" -> RawTexts(StreamSegments, MaxSegments)
      [] prompt = "refinement" -> RefinedTexts

\* outcomes of chain.ainvoke: the generated text, or an exception
LlmOutcomes(prompt) ==
    {[kind |-> "ok", text |-> t] : t \in LlmTexts(prompt)}
    \cup {[kind |-> "raise", text |-> e] : e \in Errors}

\* trending_topics.split('\n')[0]
\* the whole text taken for its first line
FirstLine_whole(text) == text

FirstLine(text) ==
    IF \A j \in 1..Len(text) : text[j] # "\n"
    THEN text
    ELSE LET i == CHOOSE j \in 1..Len(text) :
                      text[j] = "\n" /\ \A h \in 1..(j - 1) : text[h] # "\n"
         IN  SubSeq(text, 1, i - 1)

\* "\n\n".join(research_data); raises TypeError when an item is not a str
JoinRaises(items) == \E k \in 1..Len(items) : ~IsStr(items[k])

RECURSIVE Join(_)
Join(items) ==
    IF items = <<>> THEN <<>>
    ELSE IF Len(items) = 1 THEN Head(items)
    ELSE Head(items) \o <<"\n\n">> \o Join(Tail(items))

\* f"{value}": str() of the value
Format(v) == IF v = None THEN <<"None">> ELSE v

(***************************************************************************)
(* State after construction                                                *)
(***************************************************************************)
InitLoc ==
    [field |-> Unset, additional_context |-> Unset, search_results |-> Unset,
     trending_topics |-> Unset, i |-> 0, research_data |-> Unset,
     research_report |-> Unset, posts |-> Unset]

NoCall == [prompt |-> "none"]

\* llm, search, api: calls of chain.ainvoke, _search_with_gemini and generate_content;
\* last: the most recent chain.ainvoke; llm_raised: a model call raised;
\* raised_in: the stage in which an exception reached the handler;
\* search_degraded: a search returned something else than the response text
InitMock ==
    [llm |-> 0, search |-> 0, api |-> 0, last |-> NoCall, llm_raised |-> FALSE,
     raised_in |-> "none", search_degraded |-> FALSE]

InitTasks == [k \in 1..NumQueries |-> [st |-> "none", res |-> Unset]]

InitStream ==
    /\ pc = [r \in Runs |-> "idle"]
    /\ loc = [r \in Runs |-> InitLoc]
    /\ tasks = [r \in Runs |-> InitTasks]
    /\ completed = [r \in Runs |-> <<>>]
    /\ events = [r \in Runs |-> <<>>]
    /\ wire = [r \in Runs |-> <<>>]
    /\ mock = [r \in Runs |-> InitMock]

InitDirect ==
    /\ direct = [st |-> "idle", query |-> Unset]
    /\ searchLog = <<>>

NotParsed == [done |-> FALSE, posts |-> <<>>]

InitParser ==
    /\ parseIn = <<>>
    /\ parseOut = NotParsed

(***************************************************************************)
(* The prompts file and the values of PromptLoader (utils/prompt_loader.py)*)
(* A document is what yaml.safe_load returns: None for an empty file, or   *)
(* a dict, kept as the sequence of its items in document order.  An entry  *)
(* is a dict with or without the keys system and human, or a scalar.       *)
(***************************************************************************)
PromptNames == {"trending", "refinement"}

NoneDoc == [kind |-> "None", items |-> <<>>]
Dict(items) == [kind |-> "dict", items |-> items]

Entry(system, human) == [kind |-> "dict", system |-> system, human |-> human]
Scalar(text) == [kind |-> "str", system |-> text, human |-> Unset]

SystemA == <<"W", "You are analyst A.", "W">>
SystemB == <<"You are analyst B.">>
Human == <<"Field: {field}", "W">>

Documents ==
    {NoneDoc,
     Dict(<<>>),
     Dict(<<[name |-> "trending", data |-> Entry(SystemA, Human)]>>),
     Dict(<<[name |-> "trending", data |-> Entry(SystemB, Human)]>>),
     Dict(<<[name |-> "trending", data |-> Entry(SystemA, Human)],
            [name |-> "refinement", data |-> Entry(SystemB, Human)]>>),
     Dict(<<[name |-> "trending", data |-> Entry(SystemA, Unset)]>>),
     Dict(<<[name |-> "refinement", data |-> Scalar(SystemA)]>>)}

\* the file is absent, is not YAML, or holds a document
Sources ==
    {[status |-> "missing", doc |-> NoneDoc], [status |-> "malformed", doc |-> NoneDoc]}
    \cup {[status |-> "ok", doc |-> d] : d \in Documents}

DefaultSource ==
    [status |-> "ok",
     doc |-> Dict(<<[name |-> "trending", data |-> Entry(SystemA, Human)],
                    [name |-> "refinement", data |-> Entry(SystemB, Human)]>>)]

NotCached == [system |-> Unset, human |-> Unset]

NoLoaderCall ==
    [op |-> "none", name |-> "-", outcome |-> "none", value |-> <<>>,
     message |-> <<>>, read |-> FALSE, prev |-> "none", before |-> NotCached]

\* no load has returned yet, no template was returned yet
NoSource == [status |-> "none", doc |-> NoneDoc]
NoLoadLog ==
    [from |-> NoSource,
     served |-> [n \in PromptNames |-> [value |-> NotCached, from |-> NoSource]]]

\* PromptLoader.__init__
NewLoader ==
    /\ prompts_cache = NoneDoc
    /\ templates_cache = [n \in PromptNames |-> NotCached]
    /\ lastCall = NoLoaderCall
    /\ loadLog = NoLoadLog

InitLoader ==
    /\ source = DefaultSource
    /\ NewLoader

\* a Python value with its type: str, list of str, or exception
PyStr(text) == [type |-> "str", value |-> text]
PyList(items) == [type |-> "list", value |-> items]
PyExc(text) == [type |-> "exception", value |-> text]
NoValue == [type |-> "none", value |-> <<>>]

OpIdle ==
    [fn |-> "none", st |-> "idle", post |-> Unset, feedback |-> Unset,
     field |-> Unset, search_results |-> Unset, ret |-> NoValue,
     llm |-> 0, search |-> 0, api |-> 0, last |-> NoCall, llm_text |-> Unset]

InitOps ==
    /\ op = OpIdle
    /\ opLog = <<>>

NotBuilt == [factory |-> "none", dict |-> <<>>]

InitEvents == built = NotBuilt

Init ==
    /\ \E k \in ApiKeys : agent = NewAgent(k)
    /\ InitStream
    /\ InitDirect
    /\ InitParser
    /\ InitOps
    /\ InitEvents
    /\ InitLoader

(***************************************************************************)
(* generate_posts_stream, one action per stretch between suspension points *)
(***************************************************************************)
\* the consumer has taken every event yielded so far and asked for the next
Consumed(r) == Len(wire[r]) = Len(events[r])

\* the event appended to one buffer shared by the runs
Emit_shared(r, e) == events' = [q \in Runs |-> Append(events[q], e)]

Emit(r, e) == events' = [events EXCEPT ![r] = Append(@, e)]

Goto(r, p) == pc' = [pc EXCEPT ![r] = p]

\* the handler ends the stream without an event
Raise_silent(r, e) ==
    /\ Goto(r, "done")
    /\ UNCHANGED events

\* the handler reports the error and the pipeline goes on
Raise_resume(r, e) ==
    /\ Emit(r, ErrorEvent(<<"An error occurred: ">> \o e))
    /\ Goto(r, "y_result_g")

\* `except Exception as e: yield {"type": "error", ...}`
Raise(r, e) ==
    /\ Emit(r, ErrorEvent(<<"An error occurred: ">> \o e))
    /\ Goto(r, "y_error")

\* the guard tests the key against None only
HasLlm_isNone == agent.api_key # None

\* `if not self.llm`
HasLlm == agent.llm # "None"

\* generate_stream(field, additional_context) calls agent.generate_posts_stream
Call(r) ==
    /\ pc[r] = "idle"
    /\ \E f \in Fields, c \in Contexts :
           loc' = [loc EXCEPT ![r].field = f, ![r].additional_context = c]
    /\ Goto(r, "start")
    /\ UNCHANGED <<agent, tasks, completed, events, wire, mock, searchVars, parseVars, opVars, eventVars, loaderVars>>

NotConfigured(r) ==
    /\ pc[r] = "start"
    /\ ~HasLlm
    /\ Emit(r, ErrorEvent(
           <<"GOOGLE_API_KEY not configured. Please set the environment variable.">>))
    /\ Goto(r, "y_error")
    /\ UNCHANGED <<agent, loc, tasks, completed, wire, mock, searchVars, parseVars, opVars, eventVars, loaderVars>>

StageTrending(r) ==
    /\ pc[r] = "start"
    /\ HasLlm
    /\ Emit(r, StageEvent("trending", <<"Identifying trending topics in your field...">>))
    /\ Goto(r, "y_stage_t")
    /\ UNCHANGED <<agent, loc, tasks, completed, wire, mock, searchVars, parseVars, opVars, eventVars, loaderVars>>

ProgressSearching(r) ==
    /\ pc[r] = "y_stage_t"
    /\ Consumed(r)
    /\ Emit(r, ProgressEvent(<<"Searching for: ">> \o TrendingQuery(loc[r].field)))
    /\ Goto(r, "y_prog_search")
    /\ UNCHANGED <<agent, loc, tasks, completed, wire, mock, searchVars, parseVars, opVars, eventVars, loaderVars>>

\* `search_results = await self._search_with_gemini(search_query)`: up to the
\* underlying call
TrendingSearchCall(r) ==
    /\ pc[r] = "y_prog_search"
    /\ Consumed(r)
    /\ IF ~HasClient
       THEN /\ loc' = [loc EXCEPT ![r].search_results = NotConfiguredText]
            /\ mock' = [mock EXCEPT ![r].search = @ + 1, ![r].search_degraded = TRUE]
            /\ Emit(r, ProgressEvent(<<"Analyzing search results...">>))
            /\ Goto(r, "y_prog_analyze")
       ELSE /\ mock' = [mock EXCEPT ![r].search = @ + 1, ![r].api = @ + 1]
            /\ Goto(r, "a_search_t")
            /\ UNCHANGED <<loc, events>>
    /\ UNCHANGED <<agent, tasks, completed, wire, searchVars, parseVars, opVars, eventVars, loaderVars>>

TrendingSearchDone(r) ==
    /\ pc[r] = "a_search_t"
    /\ \E o \in SearchOutcomes(TrendingQuery(loc[r].field)) :
           /\ loc' = [loc EXCEPT ![r].search_results = SearchReturn(o)]
           /\ mock' = [mock EXCEPT ![r].search_degraded = @ \/ o.kind # "text"]
    /\ Emit(r, ProgressEvent(<<"Analyzing search results...">>))
    /\ Goto(r, "y_prog_analyze")
    /\ UNCHANGED <<agent, tasks, completed, wire, searchVars, parseVars, opVars, eventVars, loaderVars>>

\* `await chain.ainvoke({...})`: the call reaches the language model
Invoke(r, prompt, args) ==
    mock' = [mock EXCEPT ![r].llm = @ + 1,
                         ![r].last = [prompt |-> prompt, args |-> args]]

TrendingInvoke(r) ==
    /\ pc[r] = "y_prog_analyze"
    /\ Consumed(r)
    /\ Invoke(r, "trending",
           [field |-> loc[r].field,
            context |-> loc[r].additional_context \o <<"\n\nRecent findings:\n">>
                        \o Format(loc[r].search_results)])
    /\ Goto(r, "a_llm_t")
    /\ UNCHANGED <<agent, loc, tasks, completed, events, wire, searchVars, parseVars, opVars, eventVars, loaderVars>>

TrendingLlmDone(r) ==
    /\ pc[r] = "a_llm_t"
    /\ \E o \in LlmOutcomes("trending") :
           IF o.kind = "ok"
           THEN /\ loc' = [loc EXCEPT ![r].trending_topics = o.text]
                /\ Emit(r, ResultEvent("trending", <<"Trending topics identified!">>,
                                       [topics |-> o.text]))
                /\ Goto(r, "y_result_t")
                /\ UNCHANGED mock
           ELSE /\ mock' = [mock EXCEPT ![r].llm_raised = TRUE,
                                     ![r].raised_in = "trending"]
                /\ Raise(r, o.text)
                /\ UNCHANGED loc
    /\ UNCHANGED <<agent, tasks, completed, wire, searchVars, parseVars, opVars, eventVars, loaderVars>>

StageResearch(r) ==
    /\ pc[r] = "y_result_t"
    /\ Consumed(r)
    /\ Emit(r, StageEvent("research",
                          <<"Conducting deep research on trending topics...">>))
    /\ Goto(r, "y_stage_r")
    /\ UNCHANGED <<agent, loc, tasks, completed, wire, mock, searchVars, parseVars, opVars, eventVars, loaderVars>>

QueryProgress(r, i) ==
    ProgressEvent(<<"Research query ", ToString(i + 1), "/3: ">>
                  \o ResearchQueries(loc[r].field)[i + 1])

\* builds research_queries and the search coroutines, then the first iteration
\* of the progress loop
ResearchBegin(r) ==
    /\ pc[r] = "y_stage_r"
    /\ Consumed(r)
    /\ tasks' = [tasks EXCEPT ![r] = [k \in 1..NumQueries |->
                                          [st |-> "created", res |-> Unset]]]
    /\ Emit(r, QueryProgress(r, 0))
    /\ loc' = [loc EXCEPT ![r].i = 1]
    /\ Goto(r, "y_prog_query")
    /\ UNCHANGED <<agent, completed, wire, mock, searchVars, parseVars, opVars, eventVars, loaderVars>>

ProgressQuery(r) ==
    /\ pc[r] = "y_prog_query"
    /\ Consumed(r)
    /\ loc[r].i < NumQueries
    /\ Emit(r, QueryProgress(r, loc[r].i))
    /\ loc' = [loc EXCEPT ![r].i = @ + 1]
    /\ UNCHANGED <<agent, pc, tasks, completed, wire, mock, searchVars, parseVars, opVars, eventVars, loaderVars>>

\* the searches are gathered before the progress loop has ended
GatherStart_beforeLoopEnds(r) ==
    /\ pc[r] = "y_prog_query"
    /\ Consumed(r)
    /\ tasks' = [tasks EXCEPT ![r] = [k \in 1..NumQueries |->
                                          [st |-> "scheduled", res |-> Unset]]]
    /\ Goto(r, "a_gather")
    /\ UNCHANGED <<agent, loc, completed, events, wire, mock, searchVars, parseVars, opVars, eventVars, loaderVars>>

\* `await asyncio.gather(*search_tasks)`: every coroutine becomes a scheduled task
GatherStart(r) ==
    /\ pc[r] = "y_prog_query"
    /\ Consumed(r)
    /\ loc[r].i = NumQueries
    /\ tasks' = [tasks EXCEPT ![r] = [k \in 1..NumQueries |->
                                          [st |-> "scheduled", res |-> Unset]]]
    /\ Goto(r, "a_gather")
    /\ UNCHANGED <<agent, loc, completed, events, wire, mock, searchVars, parseVars, opVars, eventVars, loaderVars>>

\* the searches are awaited one after the other
CanStartSearch_sequential(r, k) ==
    /\ tasks[r][k].st = "scheduled"
    /\ \A j \in 1..(k - 1) : tasks[r][j].st = "done"

\* when the event loop may start gather's k-th child
CanStartSearch(r, k) == tasks[r][k].st = "scheduled"

SearchTaskStart(r, k) ==
    /\ pc[r] = "a_gather"
    /\ CanStartSearch(r, k)
    /\ IF ~HasClient
       THEN /\ tasks' = [tasks EXCEPT ![r][k] = [st |-> "done", res |-> NotConfiguredText]]
            /\ completed' = [completed EXCEPT ![r] = Append(@, k)]
            /\ mock' = [mock EXCEPT ![r].search = @ + 1, ![r].search_degraded = TRUE]
       ELSE /\ tasks' = [tasks EXCEPT ![r][k].st = "inflight"]
            /\ mock' = [mock EXCEPT ![r].search = @ + 1, ![r].api = @ + 1]
            /\ UNCHANGED completed
    /\ UNCHANGED <<agent, pc, loc, events, wire, searchVars, parseVars, opVars, eventVars, loaderVars>>

SearchTaskDone(r, k) ==
    /\ pc[r] = "a_gather"
    /\ tasks[r][k].st = "inflight"
    /\ \E o \in SearchOutcomes(ResearchQueries(loc[r].field)[k]) :
           /\ tasks' = [tasks EXCEPT ![r][k] = [st |-> "done", res |-> SearchReturn(o)]]
           /\ mock' = [mock EXCEPT ![r].search_degraded = @ \/ o.kind # "text"]
    /\ completed' = [completed EXCEPT ![r] = Append(@, k)]
    /\ UNCHANGED <<agent, pc, loc, events, wire, searchVars, parseVars, opVars, eventVars, loaderVars>>

\* gather returns once all of its children are done
AllSearchesDone(r) == \A k \in 1..NumQueries : tasks[r][k].st = "done"

\* the results are collected as the searches finish
GatherResults_completionOrder(r) ==
    [k \in 1..NumQueries |-> tasks[r][completed[r][k]].res]

\* gather's result list: one result per awaitable, in the order they were passed
GatherResults(r) == [k \in 1..NumQueries |-> tasks[r][k].res]

GatherDone(r) ==
    /\ pc[r] = "a_gather"
    /\ AllSearchesDone(r)
    /\ loc' = [loc EXCEPT ![r].research_data = GatherResults(r)]
    /\ Emit(r, ProgressEvent(<<"Compiling research report...">>))
    /\ Goto(r, "y_prog_compile")
    /\ UNCHANGED <<agent, tasks, completed, wire, mock, searchVars, parseVars, opVars, eventVars, loaderVars>>

\* the join, the `del`s and the research model call
ResearchInvoke(r) ==
    /\ pc[r] = "y_prog_compile"
    /\ Consumed(r)
    /\ IF JoinRaises(loc[r].research_data)
       THEN /\ Raise(r, <<"sequence item: expected str instance, NoneType found">>)
            /\ mock' = [mock EXCEPT ![r].raised_in = "research"]
            /\ UNCHANGED <<loc, tasks>>
       ELSE /\ Invoke(r, "research",
                   [topic |-> IF Truthy(loc[r].trending_topics)
                              THEN FirstLine(loc[r].trending_topics)
                              ELSE loc[r].field,
                    field |-> loc[r].field,
                    context |-> loc[r].additional_context
                                \o <<"\n\nResearch findings:\n">>
                                \o Join(loc[r].research_data)])
            /\ loc' = [loc EXCEPT ![r].research_data = Unset]
            /\ tasks' = [tasks EXCEPT ![r] = [k \in 1..NumQueries |->
                                                  [st |-> "done", res |-> Unset]]]
            /\ Goto(r, "a_llm_r")
            /\ UNCHANGED events
    /\ UNCHANGED <<agent, completed, wire, searchVars, parseVars, opVars, eventVars, loaderVars>>

ResearchLlmDone(r) ==
    /\ pc[r] = "a_llm_r"
    /\ \E o \in LlmOutcomes("research") :
           IF o.kind = "ok"
           THEN /\ loc' = [loc EXCEPT ![r].research_report = o.text]
                /\ Emit(r, ResultEvent("research", <<"Research report compiled!">>,
                                       [report |-> o.text]))
                /\ Goto(r, "y_result_r")
                /\ UNCHANGED mock
           ELSE /\ mock' = [mock EXCEPT ![r].llm_raised = TRUE,
                                     ![r].raised_in = "research"]
                /\ Raise(r, o.text)
                /\ UNCHANGED loc
    /\ UNCHANGED <<agent, tasks, completed, wire, searchVars, parseVars, opVars, eventVars, loaderVars>>

\* the third stage announced under the name of the second
StageGeneration_reenter(r) ==
    /\ pc[r] = "y_result_r"
    /\ Consumed(r)
    /\ Emit(r, StageEvent("research", <<"Crafting LinkedIn post options...">>))
    /\ Goto(r, "y_stage_g")
    /\ UNCHANGED <<agent, loc, tasks, completed, wire, mock, searchVars, parseVars, opVars, eventVars, loaderVars>>

StageGeneration(r) ==
    /\ pc[r] = "y_result_r"
    /\ Consumed(r)
    /\ Emit(r, StageEvent("generation", <<"Crafting LinkedIn post options...">>))
    /\ Goto(r, "y_stage_g")
    /\ UNCHANGED <<agent, loc, tasks, completed, wire, mock, searchVars, parseVars, opVars, eventVars, loaderVars>>

\* the progress event of the generation stage is not yielded
ProgressGenerating_missing(r) ==
    /\ pc[r] = "y_stage_g"
    /\ Consumed(r)
    /\ Goto(r, "y_prog_gen")
    /\ UNCHANGED <<agent, loc, tasks, completed, events, wire, mock, searchVars, parseVars, opVars, eventVars, loaderVars>>

ProgressGenerating(r) ==
    /\ pc[r] = "y_stage_g"
    /\ Consumed(r)
    /\ Emit(r, ProgressEvent(<<"Generating 3 unique post variations...">>))
    /\ Goto(r, "y_prog_gen")
    /\ UNCHANGED <<agent, loc, tasks, completed, wire, mock, searchVars, parseVars, opVars, eventVars, loaderVars>>

GenerationInvoke(r) ==
    /\ pc[r] = "y_prog_gen"
    /\ Consumed(r)
    /\ Invoke(r, "generation",
           [report |-> loc[r].research_report, field |-> loc[r].field])
    /\ Goto(r, "a_llm_g")
    /\ UNCHANGED <<agent, loc, tasks, completed, events, wire, searchVars, parseVars, opVars, eventVars, loaderVars>>

GenerationLlmDone(r) ==
    /\ pc[r] = "a_llm_g"
    /\ \E o \in LlmOutcomes("generation") :
           IF o.kind = "ok"
           THEN /\ loc' = [loc EXCEPT ![r].posts = o.text]
                /\ Emit(r, ResultEvent("generation", <<"LinkedIn posts generated!">>,
                                       [posts |-> Agent_parse_posts(o.text),
                                        raw_posts |-> o.text]))
                /\ Goto(r, "y_result_g")
                /\ UNCHANGED mock
           ELSE /\ mock' = [mock EXCEPT ![r].llm_raised = TRUE,
                                     ![r].raised_in = "generation"]
                /\ Raise(r, o.text)
                /\ UNCHANGED loc
    /\ UNCHANGED <<agent, tasks, completed, wire, searchVars, parseVars, opVars, eventVars, loaderVars>>

Complete(r) ==
    /\ pc[r] = "y_result_g"
    /\ Consumed(r)
    /\ Emit(r, CompleteEvent)
    /\ Goto(r, "y_complete")
    /\ UNCHANGED <<agent, loc, tasks, completed, wire, mock, searchVars, parseVars, opVars, eventVars, loaderVars>>

\* the generator returns and the transport's `async for` ends
Finish(r) ==
    /\ pc[r] \in {"y_complete", "y_error"}
    /\ Consumed(r)
    /\ Goto(r, "done")
    /\ UNCHANGED <<agent, loc, tasks, completed, events, wire, mock, searchVars, parseVars, opVars, eventVars, loaderVars>>

(***************************************************************************)
(* generate_stream (main.py): forwards each event as one JSON message.     *)
(* Its except branch needs an exception out of the generator or out of     *)
(* json.dumps: the generator catches Exception itself and its events hold  *)
(* only str, int, list and dict values.                                    *)
(***************************************************************************)
Forward(r) ==
    /\ Len(wire[r]) < Len(events[r])
    /\ wire' = [wire EXCEPT ![r] = Append(@, JsonDumps(events[r][Len(wire[r]) + 1]))]
    /\ UNCHANGED <<agent, pc, loc, tasks, completed, events, mock, searchVars, parseVars, opVars, eventVars, loaderVars>>

Step(r) ==
    \/ Call(r)
    \/ NotConfigured(r)
    \/ StageTrending(r)
    \/ ProgressSearching(r)
    \/ TrendingSearchCall(r)
    \/ TrendingSearchDone(r)
    \/ TrendingInvoke(r)
    \/ TrendingLlmDone(r)
    \/ StageResearch(r)
    \/ ResearchBegin(r)
    \/ ProgressQuery(r)
    \/ GatherStart(r)
    \/ \E k \in 1..NumQueries : SearchTaskStart(r, k)
    \/ \E k \in 1..NumQueries : SearchTaskDone(r, k)
    \/ GatherDone(r)
    \/ ResearchInvoke(r)
    \/ ResearchLlmDone(r)
    \/ StageGeneration(r)
    \/ ProgressGenerating(r)
    \/ GenerationInvoke(r)
    \/ GenerationLlmDone(r)
    \/ Complete(r)
    \/ Finish(r)
    \/ Forward(r)

Next == \E r \in SoloRuns : Step(r)

Spec == Init /\ [][Next]_vars

(***************************************************************************)
(* Direct calls of _search_with_gemini on an agent with or without a       *)
(* credential                                                              *)
(***************************************************************************)
DirectQueries == {<<"q1">>, <<"q2">>}

DirectSearchCall ==
    /\ direct.st = "idle"
    /\ Len(searchLog) < MaxDirectCalls
    /\ \E q \in DirectQueries :
           IF ~HasClient
           THEN /\ searchLog' = Append(searchLog,
                       [query |-> q, result |-> NotConfiguredText,
                        attempted |-> FALSE, outcome |-> "none"])
                /\ UNCHANGED direct
           ELSE /\ direct' = [st |-> "inflight", query |-> q]
                /\ UNCHANGED searchLog
    /\ UNCHANGED <<agent, streamVars, parseVars, opVars, eventVars, loaderVars>>

DirectSearchDone ==
    /\ direct.st = "inflight"
    /\ \E o \in SearchOutcomes(direct.query) :
           searchLog' = Append(searchLog,
               [query |-> direct.query, result |-> SearchReturn(o),
                attempted |-> TRUE, outcome |-> o.kind])
    /\ direct' = [st |-> "idle", query |-> Unset]
    /\ UNCHANGED <<agent, streamVars, parseVars, opVars, eventVars, loaderVars>>

NextSearch == DirectSearchCall \/ DirectSearchDone

SpecSearch == Init /\ [][NextSearch]_vars

(***************************************************************************)
(* PostParser.parse applied to every raw text of the bounded set           *)
(***************************************************************************)
InitParse ==
    /\ agent = NewAgent(<<"key">>)
    /\ InitStream
    /\ InitDirect
    /\ InitOps
    /\ InitEvents
    /\ InitLoader
    /\ parseIn \in RawTexts(ParseSegments, MaxParseSegments) \cup ExampleTexts
    /\ parseOut = NotParsed

ParseCall ==
    /\ ~parseOut.done
    /\ parseOut' = [done |-> TRUE, posts |-> PostParser_parse(parseIn)]
    /\ UNCHANGED <<agent, streamVars, searchVars, parseIn, opVars, eventVars, loaderVars>>

NextParse == ParseCall

SpecParse == InitParse /\ [][NextParse]_vars

(***************************************************************************)
(* refine_post and get_trending_topics, called directly on the agent       *)
(***************************************************************************)
PostInputs == {<<"draft post">>, <<>>}
Feedbacks == {<<"make it shorter">>}

RefineReminder == <<"Configure GOOGLE_API_KEY to refine posts">>
TopicsReminder == <<"Configure GOOGLE_API_KEY to get trending topics">>

TopicsQuery(field) ==
    <<"trending topics ">> \o field \o <<" 2024 2025 latest news developments">>

\* the call is over: its record goes to the log
OpReturn(call, value) ==
    /\ opLog' = Append(opLog, [call EXCEPT !.st = "returned", !.ret = value])
    /\ op' = OpIdle

\* an exception leaves the method (neither method has a handler)
OpRaise(call, e) ==
    /\ opLog' = Append(opLog, [call EXCEPT !.st = "raised", !.ret = PyExc(e)])
    /\ op' = OpIdle

OpInvoke(call, prompt, args) ==
    [call EXCEPT !.st = "a_llm", !.llm = @ + 1,
                 !.last = [prompt |-> prompt, args |-> args]]

RefineCall ==
    /\ op.st = "idle"
    /\ Len(opLog) < MaxOpCalls
    /\ \E p \in PostInputs, f \in Feedbacks :
           LET call == [OpIdle EXCEPT !.fn = "refine_post", !.post = p, !.feedback = f]
           IN  IF ~HasLlm
               THEN OpReturn(call, PyStr(RefineReminder))
               ELSE /\ op' = OpInvoke(call, "refinement", [post |-> p, feedback |-> f])
                    /\ UNCHANGED opLog
    /\ UNCHANGED <<agent, streamVars, searchVars, parseVars, eventVars, loaderVars>>

\* refine_post passing the model's text through strip() before returning it
RefineLlmDone_stripped ==
    /\ op.fn = "refine_post"
    /\ op.st = "a_llm"
    /\ \E o \in LlmOutcomes("refinement") :
           IF o.kind = "ok"
           THEN OpReturn([op EXCEPT !.llm_text = o.text], PyStr(Strip(o.text)))
           ELSE OpRaise(op, o.text)
    /\ UNCHANGED <<agent, streamVars, searchVars, parseVars, eventVars, loaderVars>>

RefineLlmDone ==
    /\ op.fn = "refine_post"
    /\ op.st = "a_llm"
    /\ \E o \in LlmOutcomes("refinement") :
           IF o.kind = "ok"
           THEN OpReturn([op EXCEPT !.llm_text = o.text], PyStr(o.text))
           ELSE OpRaise(op, o.text)
    /\ UNCHANGED <<agent, streamVars, searchVars, parseVars, eventVars, loaderVars>>

\* the trending model call of get_trending_topics
TopicsInvoke(call, search_results) ==
    OpInvoke([call EXCEPT !.search_results = search_results], "trending",
             [field |-> call.field,
              context |-> <<"Recent search findings:\n">> \o Format(search_results)])

TopicsCall ==
    /\ op.st = "idle"
    /\ Len(opLog) < MaxOpCalls
    /\ \E f \in Fields :
           LET call == [OpIdle EXCEPT !.fn = "get_trending_topics", !.field = f]
           IN  IF ~HasLlm
               THEN OpReturn(call, PyList(<<TopicsReminder>>))
               ELSE /\ op' = IF ~HasClient
                              THEN TopicsInvoke([call EXCEPT !.search = 1],
                                                NotConfiguredText)
                              ELSE [call EXCEPT !.st = "a_search", !.search = 1,
                                                !.api = 1]
                    /\ UNCHANGED opLog
    /\ UNCHANGED <<agent, streamVars, searchVars, parseVars, eventVars, loaderVars>>

TopicsSearchDone ==
    /\ op.fn = "get_trending_topics"
    /\ op.st = "a_search"
    /\ \E o \in SearchOutcomes(TopicsQuery(op.field)) :
           op' = TopicsInvoke(op, SearchReturn(o))
    /\ UNCHANGED <<agent, opLog, streamVars, searchVars, parseVars, eventVars, loaderVars>>

TopicsLlmDone ==
    /\ op.fn = "get_trending_topics"
    /\ op.st = "a_llm"
    /\ \E o \in LlmOutcomes("trending") :
           IF o.kind = "ok"
           THEN OpReturn([op EXCEPT !.llm_text = o.text], PyStr(o.text))
           ELSE OpRaise(op, o.text)
    /\ UNCHANGED <<agent, streamVars, searchVars, parseVars, eventVars, loaderVars>>

NextOps ==
    \/ RefineCall
    \/ RefineLlmDone
    \/ TopicsCall
    \/ TopicsSearchDone
    \/ TopicsLlmDone

SpecOps == Init /\ [][NextOps]_vars

(***************************************************************************)
(* Two runs of generate_posts_stream on the one agent of main.py, and      *)
(* calls of refine_post and get_trending_topics beside them.  The external *)
(* responses are narrowed: searches return text, the generation call       *)
(* returns one raw text, the research call one report, the trending call   *)
(* topics to run 1 and the empty text to run 2, the research searches      *)
(* finish in the order 2, 1, 3, and one direct call is made; a call of     *)
(* get_trending_topics returns topics.                                     *)
(***************************************************************************)
Narrow ==
    /\ \A r \in Runs :
           /\ ~mock[r].search_degraded
           /\ loc[r].posts \in {Unset, <<"M", "W", "T51", "W">>}
           /\ loc[r].research_report \in {Unset, <<"report A">>}
           /\ IsPrefix(completed[r], <<2, 1, 3>>)
    /\ loc[1].trending_topics # <<>>
    /\ loc[2].trending_topics \in {Unset, <<>>}
    /\ Len(opLog) <= 1
    /\ Len(opLog) = 1 => op.st = "idle"
    /\ op.post \in {Unset, <<"draft post">>}
    /\ op.search_results \in {Unset} \cup
           UNION {{o.text : o \in {x \in SearchOutcomes(TopicsQuery(f)) :
                                        x.kind = "text"}} : f \in Fields}
    /\ \A j \in 1..Len(opLog) :
           /\ opLog[j].st = "returned" \/ opLog[j].fn = "refine_post"
           /\ (opLog[j].fn = "get_trending_topics" /\ opLog[j].ret.type = "str")
              => opLog[j].ret.value = <<"AI agents", "\n", "Quantum">>

NextConc ==
    \/ \E r \in Runs : Step(r) /\ Narrow'
    \/ NextOps /\ Narrow'

SpecConc == Init /\ [][NextConc]_vars

(***************************************************************************)
(* AgentEvents built by the factories and serialized, beside one run of    *)
(* generate_posts_stream (with the narrowed responses)                     *)
(***************************************************************************)
StageNames == {"trending", "research", "generation"}
Messages == {<<"Working...">>, <<>>}
DataValues == {<<>>, [topics |-> <<"AI agents">>]}

Build(factory, event) == built' = [factory |-> factory, dict |-> to_dict(event)]

FactoryCall ==
    /\ \/ \E st \in StageNames, m \in Messages :
              Build("stage_event", stage_event(st, m))
       \/ \E m \in Messages : Build("progress_event", progress_event(m))
       \/ \E st \in StageNames, m \in Messages, d \in DataValues :
              Build("result_event", result_event(st, m, d))
       \/ \E m \in Messages \cup {DefaultCompleteMessage} :
              Build("complete_event", complete_event(m))
       \/ \E m \in Messages : Build("error_event", error_event(m))
    /\ UNCHANGED <<agent, streamVars, searchVars, parseVars, opVars, loaderVars>>

NextEvents ==
    \/ \E r \in SoloRuns : Step(r) /\ Narrow'
    \/ FactoryCall

SpecEvents == Init /\ [][NextEvents]_vars

(***************************************************************************)
(* PromptLoader (utils/prompt_loader.py): one loader on a prompts file     *)
(* that the environment may replace, remove or corrupt between calls       *)
(***************************************************************************)
\* prompts.keys() in document order, and prompts[name]
KeySeq(doc) == [j \in 1..Len(doc.items) |-> doc.items[j].name]
Keys(doc) == {doc.items[j].name : j \in 1..Len(doc.items)}
Lookup(doc, name) ==
    doc.items[CHOOSE j \in 1..Len(doc.items) : doc.items[j].name = name].data

Returned(value) == [outcome |-> "return", value |-> value, message |-> <<>>]
Raised(exception, message) ==
    [outcome |-> exception, value |-> <<>>, message |-> message]

\* _load_prompts: what it returns or raises, and whether it went to the file;
\* after it _prompts_cache is `prompts` (None still when it raised)
LoadPrompts ==
    IF prompts_cache # NoneDoc
    THEN [outcome |-> "return", prompts |-> prompts_cache, read |-> FALSE,
          message |-> <<>>]
    ELSE IF source.status = "missing"
    THEN [outcome |-> "FileNotFoundError", prompts |-> NoneDoc, read |-> TRUE,
          message |-> <<"Prompts file not found: ", "prompts.yml">>]
    ELSE IF source.status = "malformed"
    THEN [outcome |-> "YAMLError", prompts |-> NoneDoc, read |-> TRUE,
          message |-> <<"while parsing">>]
    ELSE [outcome |-> "return", prompts |-> source.doc, read |-> TRUE,
          message |-> <<>>]

\* get_prompt indexing the document without the membership test
GetPromptFrom_noTest(prompts, name) ==
    IF prompts = NoneDoc
    THEN Raised("TypeError", <<"'NoneType' object is not subscriptable">>)
    ELSE IF name \notin Keys(prompts)
    THEN Raised("KeyError", <<name>>)
    ELSE Returned(Lookup(prompts, name))

\* the body of get_prompt after _load_prompts returned `prompts`
GetPromptFrom(prompts, name) ==
    IF prompts = NoneDoc
    THEN Raised("TypeError", <<"argument of type 'NoneType' is not iterable">>)
    ELSE IF name \notin Keys(prompts)
    THEN Raised("KeyError",
                <<"Prompt '", name, "' not found. Available prompts: ", "[">>
                \o KeySeq(prompts) \o <<"]">>)
    ELSE Returned(Lookup(prompts, name))

get_prompt(name) ==
    LET load == LoadPrompts
    IN  IF load.outcome # "return"
        THEN Raised(load.outcome, load.message)
        ELSE GetPromptFrom(load.prompts, name)

\* ChatPromptTemplate.from_messages over prompt_data["system"].strip() and
\* prompt_data["human"].strip()
Compile(prompt_data) ==
    IF prompt_data.kind = "str"
    THEN Raised("TypeError", <<"string indices must be integers">>)
    ELSE IF prompt_data.system = Unset THEN Raised("KeyError", <<"system">>)
    ELSE IF prompt_data.human = Unset THEN Raised("KeyError", <<"human">>)
    ELSE Returned([system |-> Strip(prompt_data.system),
                   human |-> Strip(prompt_data.human)])

\* `isinstance(data, dict) and 'system' in data`
HasSystem(data) == data.kind = "dict" /\ data.system # Unset

\* _load_prompts came back from the file with a document (None included)
Loaded(result, read) ==
    read /\ result.outcome \notin {"FileNotFoundError", "YAMLError"}

Record(opname, name, result, read) ==
    /\ lastCall' = [op |-> opname, name |-> name, outcome |-> result.outcome,
                    value |-> result.value, message |-> result.message,
                    read |-> read, prev |-> lastCall.op,
                    before |-> IF name \in PromptNames
                               THEN loadLog.served[name].value
                               ELSE NotCached]
    /\ LET from == IF opname = "reload" THEN NoSource
                   ELSE IF Loaded(result, read) THEN source
                   ELSE loadLog.from
       IN  loadLog' =
               [from |-> from,
                served |->
                    IF opname = "get_template" /\ result.outcome = "return"
                    THEN [loadLog.served EXCEPT
                              ![name] = [value |-> result.value, from |-> from]]
                    ELSE loadLog.served]

GetPrompt ==
    /\ \E name \in PromptNames :
           Record("get_prompt", name, get_prompt(name), LoadPrompts.read)
    /\ prompts_cache' = LoadPrompts.prompts
    /\ UNCHANGED <<agent, streamVars, searchVars, parseVars, opVars, eventVars,
                   source, templates_cache>>

\* get_template caching the texts of the entry as they stand in the document
\* instead of the template it returns
GetTemplate_cachesRaw ==
    /\ \E name \in PromptNames :
           IF templates_cache[name] # NotCached
           THEN /\ Record("get_template", name, Returned(templates_cache[name]), FALSE)
                /\ UNCHANGED <<prompts_cache, templates_cache>>
           ELSE LET prompt_data == get_prompt(name)
                    template == IF prompt_data.outcome = "return"
                                THEN Compile(prompt_data.value)
                                ELSE prompt_data
                IN  /\ Record("get_template", name, template, LoadPrompts.read)
                    /\ prompts_cache' = LoadPrompts.prompts
                    /\ templates_cache' =
                           IF template.outcome = "return"
                           THEN [templates_cache EXCEPT
                                     ![name] = [system |-> prompt_data.value.system,
                                                human |-> prompt_data.value.human]]
                           ELSE templates_cache
    /\ UNCHANGED <<agent, streamVars, searchVars, parseVars, opVars, eventVars, source>>

GetTemplate ==
    /\ \E name \in PromptNames :
           IF templates_cache[name] # NotCached
           THEN /\ Record("get_template", name, Returned(templates_cache[name]), FALSE)
                /\ UNCHANGED <<prompts_cache, templates_cache>>
           ELSE LET prompt_data == get_prompt(name)
                    template == IF prompt_data.outcome = "return"
                                THEN Compile(prompt_data.value)
                                ELSE prompt_data
                IN  /\ Record("get_template", name, template, LoadPrompts.read)
                    /\ prompts_cache' = LoadPrompts.prompts
                    /\ templates_cache' =
                           IF template.outcome = "return"
                           THEN [templates_cache EXCEPT ![name] = template.value]
                           ELSE templates_cache
    /\ UNCHANGED <<agent, streamVars, searchVars, parseVars, opVars, eventVars, source>>

\* the names list_prompts returns for a loaded dict, in document order
Listed(prompts) ==
    LET items == SelectSeq(prompts.items, LAMBDA it : HasSystem(it.data))
    IN  [j \in 1..Len(items) |-> items[j].name]

ListPrompts ==
    /\ LET load == LoadPrompts
           result == IF load.outcome # "return"
                     THEN Raised(load.outcome, load.message)
                     ELSE IF load.prompts = NoneDoc
                     THEN Raised("AttributeError",
                                 <<"'NoneType' object has no attribute 'items'">>)
                     ELSE Returned(Listed(load.prompts))
       IN  Record("list_prompts", "-", result, load.read)
    /\ prompts_cache' = LoadPrompts.prompts
    /\ UNCHANGED <<agent, streamVars, searchVars, parseVars, opVars, eventVars,
                   source, templates_cache>>

\* the dict comprehension of get_all_templates over the names left: the
\* templates cache after it, and the exception that ended it, if any
RECURSIVE CompileAll(_, _, _)
CompileAll(prompts, names, cache) ==
    IF names = <<>>
    THEN [outcome |-> "return", message |-> <<>>, cache |-> cache]
    ELSE LET name == Head(names)
             template == IF cache[name] # NotCached
                         THEN Returned(cache[name])
                         ELSE Compile(Lookup(prompts, name))
         IN  IF template.outcome # "return"
             THEN [outcome |-> template.outcome, message |-> template.message,
                   cache |-> cache]
             ELSE CompileAll(prompts, Tail(names),
                             [cache EXCEPT ![name] = template.value])

GetAllTemplates ==
    /\ LET load == LoadPrompts
       IN  IF load.outcome # "return"
           THEN /\ Record("get_all_templates", "-",
                          Raised(load.outcome, load.message), load.read)
                /\ UNCHANGED templates_cache
           ELSE IF load.prompts = NoneDoc
           THEN /\ Record("get_all_templates", "-",
                          Raised("AttributeError",
                                 <<"'NoneType' object has no attribute 'keys'">>),
                          load.read)
                /\ UNCHANGED templates_cache
           ELSE LET all == CompileAll(load.prompts, Listed(load.prompts),
                                      templates_cache)
                IN  /\ Record("get_all_templates", "-",
                              IF all.outcome = "return"
                              THEN Returned(Listed(load.prompts))
                              ELSE Raised(all.outcome, all.message),
                              load.read)
                    /\ templates_cache' = all.cache
    /\ prompts_cache' = LoadPrompts.prompts
    /\ UNCHANGED <<agent, streamVars, searchVars, parseVars, opVars, eventVars, source>>

\* reload leaving the compiled templates in place
reload_keepsTemplates ==
    /\ prompts_cache' = NoneDoc
    /\ UNCHANGED templates_cache
    /\ Record("reload", "-", Returned(<<>>), FALSE)
    /\ UNCHANGED <<agent, streamVars, searchVars, parseVars, opVars, eventVars, source>>

reload ==
    /\ prompts_cache' = NoneDoc
    /\ templates_cache' = [n \in PromptNames |-> NotCached]
    /\ Record("reload", "-", Returned(<<>>), FALSE)
    /\ UNCHANGED <<agent, streamVars, searchVars, parseVars, opVars, eventVars, source>>

\* the environment replaces, removes or corrupts the prompts file
SourceChange ==
    /\ source' \in Sources \ {source}
    /\ UNCHANGED <<agent, streamVars, searchVars, parseVars, opVars, eventVars,
                   prompts_cache, templates_cache, lastCall, loadLog>>

InitLoaderAny ==
    /\ agent = NewAgent(<<"key">>)
    /\ InitStream
    /\ InitDirect
    /\ InitParser
    /\ InitOps
    /\ InitEvents
    /\ source \in Sources
    /\ NewLoader

NextLoader ==
    \/ GetPrompt
    \/ GetTemplate
    \/ ListPrompts
    \/ GetAllTemplates
    \/ reload
    \/ SourceChange

SpecLoader == InitLoaderAny /\ [][NextLoader]_vars

(***************************************************************************)
(* Properties of the event stream                                          *)
(***************************************************************************)
EventKind(e) == <<e.type, IF "stage" \in DOMAIN e THEN e.stage ELSE "-">>

Kinds(evs) == [j \in 1..Len(evs) |-> EventKind(evs[j])]

Terminal(type) == type \in {"complete", "error"}

TerminalEvents(evs) == {j \in 1..Len(evs) : Terminal(evs[j].type)}

TerminalMessages(msgs) == {j \in 1..Len(msgs) : Terminal(JsonGet(msgs[j], "type"))}

ErrorEvents(evs) == {j \in 1..Len(evs) : evs[j].type = "error"}

ResultStages(evs) == {evs[j].stage : j \in {h \in 1..Len(evs) : evs[h].type = "result"}}

Credential == Truthy(agent.api_key)

P == <<"progress", "-">>

SuccessSequence ==
    <<<<"stage", "trending">>, P, P, <<"result", "trending">>,
      <<"stage", "research">>, P, P, P, P, <<"result", "research">>,
      <<"stage", "generation">>, P, <<"result", "generation">>,
      <<"complete", "-">>>>

\* C1: with a credential and with every search and model call succeeding, the
\* events of a run are, in order, Stage(trending), Progress, Progress,
\* Result(trending), Stage(research), four Progress, Result(research),
\* Stage(generation), Progress, Result(generation), Complete: every event
\* sequence on the way is a prefix of it and the finished run yielded all of it.
C1_SuccessSequence ==
    \A r \in Runs :
        (Credential /\ ~mock[r].llm_raised /\ ~mock[r].search_degraded)
        => /\ IsPrefix(Kinds(events[r]), SuccessSequence)
           /\ pc[r] = "done" => Kinds(events[r]) = SuccessSequence

C1_Witness ==
    /\ pc[1] = "done"
    /\ Credential
    /\ ~mock[1].llm_raised /\ ~mock[1].search_degraded
    /\ Len(events[1]) = 14
    /\ Len(wire[1]) = 14

\* C2: a run consumed to its end yielded exactly one terminal event (complete or
\* error), as its last event; at no time does an event follow a terminal event;
\* the transport forwarded every event, so exactly one terminal message, last.
C2_OneTerminalEvent ==
    \A r \in Runs :
        /\ Cardinality(TerminalEvents(events[r])) <= 1
        /\ TerminalEvents(events[r]) \subseteq {Len(events[r])}
        /\ pc[r] = "done"
           => /\ TerminalEvents(events[r]) = {Len(events[r])}
              /\ Len(events[r]) >= 1
              /\ Len(wire[r]) = Len(events[r])
              /\ TerminalMessages(wire[r]) = {Len(wire[r])}

C2_Witness ==
    /\ pc[1] = "done"
    /\ Credential
    /\ Last(events[1]).type = "error"
    /\ JsonGet(Last(wire[1]), "type") = "error"
    /\ Len(events[1]) > 1

StageNo(stage) ==
    CASE stage = "trending" -> 1 [] stage = "research" -> 2 [] stage = "generation" -> 3

\* search calls made by the end of a stage
SearchesUpTo(stage) == IF stage = "trending" THEN 1 ELSE 1 + NumQueries

Front(s) == SubSeq(s, 1, Len(s) - 1)

\* C3: once an exception reached the handler in stage S, the events hold exactly
\* one Error, as the last event; the events before it are a prefix of the
\* success sequence whose last Stage event is Stage(S), with no Result for S and
\* no event of a later stage; no model or search call of a later stage is made.
C3_ErrorAbortsPipeline ==
    \A r \in Runs :
        mock[r].raised_in # "none"
        => LET S == mock[r].raised_in
               before == Front(events[r])
               staged == {j \in 1..Len(before) : "stage" \in DOMAIN before[j]}
           IN  /\ ErrorEvents(events[r]) = {Len(events[r])}
               /\ IsPrefix(Kinds(before), SuccessSequence)
               /\ S \notin ResultStages(events[r])
               /\ <<"stage", S>> \in {Kinds(before)[j] : j \in 1..Len(before)}
               /\ \A j \in staged : StageNo(before[j].stage) <= StageNo(S)
               /\ mock[r].llm <= StageNo(S)
               /\ mock[r].search <= SearchesUpTo(S)
               /\ mock[r].api <= SearchesUpTo(S)

C3_Witness ==
    /\ pc[1] = "done"
    /\ mock[1].llm_raised
    /\ mock[1].raised_in = "research"
    /\ Len(events[1]) = 10

\* C4: on an agent constructed without a credential a run makes no model call
\* and no search call, and yields exactly one event, of type error.
C4_NoCredential ==
    \A r \in Runs :
        ~Credential
        => /\ mock[r].llm = 0 /\ mock[r].search = 0 /\ mock[r].api = 0
           /\ Len(events[r]) <= 1
           /\ pc[r] \in {"y_error", "done"}
              => Len(events[r]) = 1 /\ events[r][1].type = "error"

C4_Witness ==
    /\ pc[1] = "done"
    /\ ~Credential
    /\ Len(wire[1]) = 1

(***************************************************************************)
(* Properties of the search operation and of the research fan-out          *)
(***************************************************************************)
\* C5: every call of _search_with_gemini returns a str, whatever the underlying
\* call did; after an exception the str embeds the error description; without a
\* client it is the fixed placeholder and the underlying call is not attempted.
C5_SearchReturnsString ==
    \A j \in 1..Len(searchLog) :
        LET call == searchLog[j]
        IN  /\ IsStr(call.result)
            /\ call.outcome = "raise"
               => \E e \in Errors : \E h \in 1..(Len(call.result) - Len(e) + 1) :
                      SubSeq(call.result, h, h + Len(e) - 1) = e
            /\ ~HasClient => call.result = NotConfiguredText /\ ~call.attempted

\* C6: a finished run on a configured agent in which no model call raised ends
\* in Complete, with the three Result events and no Error, whatever the four
\* searches returned.
C6_SearchNeverAborts ==
    \A r \in Runs :
        (pc[r] = "done" /\ Credential /\ ~mock[r].llm_raised)
        => /\ Last(events[r]).type = "complete"
           /\ ResultStages(events[r]) = {"trending", "research", "generation"}
           /\ ErrorEvents(events[r]) = {}

Compiling(r) ==
    \E j \in 1..Len(events[r]) : events[r][j].message = <<"Compiling research report...">>

\* C7: the research stage makes exactly 3 search calls: a scheduled search may
\* start whatever the state of the other two (none waits for another), and
\* neither the Compiling progress event nor the research model call happens
\* before all 3 searches are done.
C7_ConcurrentJoin ==
    \A r \in Runs :
        /\ mock[r].search <= 1 + NumQueries
        /\ pc[r] = "a_gather"
           => \A k \in 1..NumQueries :
                  tasks[r][k].st = "scheduled" => ENABLED SearchTaskStart(r, k)
        /\ (Compiling(r) \/ mock[r].llm >= 2)
           => /\ \A k \in 1..NumQueries : tasks[r][k].st = "done"
              /\ Len(completed[r]) = NumQueries
              /\ mock[r].search = 1 + NumQueries
              /\ mock[r].api = 1 + NumQueries

\* all three searches in flight at once, the first one started last
C7_Witness ==
    /\ pc[1] = "a_gather"
    /\ \A k \in 1..NumQueries : tasks[1][k].st = "inflight"
    /\ mock[1].search = 1 + NumQueries

\* C8: the step that makes the research model call passes, as context, the
\* additional context, the findings header and the results of the searches for
\* query 1, query 2 and query 3 in that order, separated by a double newline.
C8_DeclarationOrder ==
    [][\A r \in Runs :
          (mock'[r].llm = mock[r].llm + 1 /\ mock'[r].last.prompt = "research")
          => mock'[r].last.args.context =
                 loc[r].additional_context \o <<"\n\nResearch findings:\n">>
                 \o tasks[r][1].res \o <<"\n\n">>
                 \o tasks[r][2].res \o <<"\n\n">>
                 \o tasks[r][3].res]_vars

\* the research call has been made after the searches finished in the order 3, 1, 2
C8_Witness ==
    /\ pc[1] = "a_llm_r"
    /\ mock[1].last.prompt = "research"
    /\ completed[1] = <<3, 1, 2>>
    /\ ~mock[1].search_degraded

(***************************************************************************)
(* Properties of the parsers                                               *)
(***************************************************************************)
GenerationResults(r) ==
    {events[r][j] : j \in {h \in 1..Len(events[r]) :
                               /\ events[r][h].type = "result"
                               /\ events[r][h].stage = "generation"}}

\* C9: the posts delivered in Result(generation) are PostParser.parse of the raw
\* text delivered with them: as many posts, with the same id, style and content.
C9_StreamUsesPostParser ==
    \A r \in Runs : \A e \in GenerationResults(r) :
        LET parsed == PostParser_parse(e.data.raw_posts)
        IN  /\ Len(e.data.posts) = Len(parsed)
            /\ \A j \in 1..Len(parsed) :
                   /\ e.data.posts[j].id = parsed[j].id
                   /\ e.data.posts[j].style = parsed[j].style
                   /\ e.data.posts[j].content = parsed[j].content

IsFallback(posts) == Len(posts) = 1 /\ posts[1].style = "Generated"

\* C10: PostParser.parse returns at most max_posts posts, their ids are 1, 2, ..
\* in order, and unless the result is the single fallback post every content
\* has at least min_post_length characters.
C10_ParseBounds ==
    parseOut.done
    => LET posts == parseOut.posts
       IN  /\ Len(posts) <= max_posts
           /\ \A j \in 1..Len(posts) : posts[j].id = j
           /\ ~IsFallback(posts)
              => \A j \in 1..Len(posts) : StrLen(posts[j].content) >= min_post_length

\* more than max_posts segments long enough, separated by short ones
C10_Witness ==
    /\ parseOut.done
    /\ Len(parseOut.posts) = max_posts
    /\ parseIn = <<"T49", "M", "T50", "M", "W", "T51", "W", "M", "T50", "M", "T50">>

\* no segment between the matches of the pattern is long enough to be a post
NoSegmentAccepted(raw) ==
    \A j \in 1..Len(ReSplit(raw)) :
        StrLen(Strip(ReSplit(raw)[j])) < min_post_length

\* C11: when PostParser.parse accepts no segment of the raw text, it returns no
\* post if the raw text is empty or only whitespace, and otherwise exactly one
\* post with id 1, style "Generated" and the whole raw text, trimmed, as content.
C11_Fallback ==
    (parseOut.done /\ NoSegmentAccepted(parseIn))
    => IF Strip(parseIn) = <<>>
       THEN parseOut.posts = <<>>
       ELSE parseOut.posts =
                <<[id |-> 1, style |-> "Generated", content |-> Strip(parseIn)]>>

\* parse of whitespace-only text has returned no post
C11_WitnessEmpty ==
    /\ parseOut.done
    /\ parseIn = <<"W">>
    /\ parseOut.posts = <<>>

\* a single blob shorter than min_post_length has become the Generated post
C11_Witness ==
    /\ parseOut.done
    /\ parseIn = <<"W", "T49", "W">>
    /\ parseOut.posts = <<[id |-> 1, style |-> "Generated", content |-> <<"T49">>]>>

\* the style the k-th accepted post is to get
PositionalStyle(k) ==
    CASE k = 1 -> "Storytelling"
      [] k = 2 -> "Data-Driven"
      [] k = 3 -> "Thought Leadership"
      [] OTHER -> "Variation " \o ToString(k)

\* C12: the k-th post PostParser.parse accepted has the k-th configured style,
\* and _get_style_for_index gives "Variation k" for a position k beyond the
\* configured styles; a marker, a 60-character segment, a marker and a
\* 60-character segment give exactly two posts, Storytelling and Data-Driven,
\* whose contents are the trimmed texts between the markers.
C12_PositionalStyles ==
    parseOut.done
    => /\ ~IsFallback(parseOut.posts)
          => \A k \in 1..Len(parseOut.posts) :
                 parseOut.posts[k].style = PositionalStyle(k)
       /\ \A k \in 1..(MaxStyleIndex + 1) :
              PostParser_get_style_for_index(k - 1) = PositionalStyle(k)
       /\ parseIn = <<"M", "W", "T60", "W", "M", "W", "T60", "W">>
          => parseOut.posts =
                 <<[id |-> 1, style |-> "Storytelling", content |-> <<"T60">>],
                   [id |-> 2, style |-> "Data-Driven", content |-> <<"T60">>]>>

\* the two-marker example has been parsed
C12_Witness ==
    /\ parseOut.done
    /\ parseIn = <<"M", "W", "T60", "W", "M", "W", "T60", "W">>
    /\ Len(parseOut.posts) = 2

(***************************************************************************)
(* Properties of the posts delivered by generate_posts_stream              *)
(***************************************************************************)
LongSegment == <<"W", "T51", "W">>

\* C13: whatever raw text the generation model call returned, the posts
\* delivered in Result(generation) are at least 1 and at most 3.
C13_OneToThreePosts ==
    \A r \in Runs : \A e \in GenerationResults(r) :
        /\ Len(e.data.posts) >= 1
        /\ Len(e.data.posts) <= 3

\* a finished run whose generation call returned four segments long enough
C13_Witness ==
    /\ pc[1] = "done"
    /\ Last(events[1]).type = "complete"
    /\ \E e \in GenerationResults(1) :
           /\ e.data.raw_posts =
                  JoinSegments(<<LongSegment, LongSegment, LongSegment, LongSegment>>)
           /\ Len(e.data.posts) = 3

\* a finished run whose generation call returned the empty text
C13_WitnessEmpty ==
    /\ pc[1] = "done"
    /\ \E e \in GenerationResults(1) :
           e.data.raw_posts = <<>> /\ Len(e.data.posts) = 1

\* C14: the ids of the posts delivered in Result(generation) are 1, 2, ..,
\* len(posts) in order, whatever the raw text: text beginning with a marker,
\* text with a preamble before the first marker, short segments between markers.
C14_DenseIds ==
    \A r \in Runs : \A e \in GenerationResults(r) :
        \A j \in 1..Len(e.data.posts) : e.data.posts[j].id = j

(***************************************************************************)
(* Properties of the stage order                                           *)
(***************************************************************************)
\* positions of the events of one kind
At(evs, type, stage) == {j \in 1..Len(evs) : EventKind(evs[j]) = <<type, stage>>}

\* the Stage, Result and Complete events of a run, in the order yielded
StageTrace(evs) ==
    SelectSeq(Kinds(evs), LAMBDA k : k[1] \in {"stage", "result", "complete"})

StageMachine ==
    <<<<"stage", "trending">>, <<"result", "trending">>,
      <<"stage", "research">>, <<"result", "research">>,
      <<"stage", "generation">>, <<"result", "generation">>,
      <<"complete", "-">>>>

\* C15: the Stage, Result and Complete events of one run are, in order, a
\* prefix of Stage(trending), Result(trending), Stage(research),
\* Result(research), Stage(generation), Result(generation), Complete: each
\* Stage event appears at most once and in that order, a stage is entered only
\* after the Result of the stage before it, Complete comes only after
\* Result(generation), and no stage is skipped or entered again.
C15_StageOrder ==
    \A r \in Runs : IsPrefix(StageTrace(events[r]), StageMachine)

\* a finished run that went through the three stages to Complete
C15_Witness ==
    /\ pc[1] = "done"
    /\ At(events[1], "stage", "trending") = {1}
    /\ At(events[1], "stage", "research") = {5}
    /\ At(events[1], "stage", "generation") = {11}
    /\ At(events[1], "complete", "-") = {14}

(***************************************************************************)
(* Properties of refine_post and get_trending_topics                       *)
(***************************************************************************)
\* C17: on an agent without a credential every finished call of refine_post
\* and of get_trending_topics returned (it did not raise) a str, the fixed
\* configuration reminder, and made no model call and no search call.
C17_ReminderString ==
    ~Credential
    => \A j \in 1..Len(opLog) :
           /\ opLog[j].st = "returned"
           /\ opLog[j].ret.type = "str"
           /\ opLog[j].ret.value \in {RefineReminder, TopicsReminder}
           /\ opLog[j].llm = 0 /\ opLog[j].search = 0 /\ opLog[j].api = 0

(***************************************************************************)
(* Properties of interleaved runs                                          *)
(***************************************************************************)
\* everything one run of generate_posts_stream holds and has produced
RunState(r) == <<pc[r], loc[r], tasks[r], completed[r], events[r], wire[r], mock[r]>>

\* the Result events of one stage among the events of a run
ResultsOf(r, stage) ==
    {events[r][j] : j \in At(events[r], "result", stage)}

\* the events and payloads of run r are those of a run executed alone with the
\* responses run r received: the event kinds are a prefix of the success
\* sequence, possibly ended by one Error; each Result carries the text run r
\* itself received; each model call of run r carries the outputs of run r
AsIfAlone(r) ==
    LET evs == events[r]
    IN  /\ \/ IsPrefix(Kinds(evs), SuccessSequence)
           \/ /\ evs # <<>>
              /\ Last(evs).type = "error"
              /\ IsPrefix(Front(Kinds(evs)), SuccessSequence)
        /\ \A e \in ResultsOf(r, "trending") : e.data.topics = loc[r].trending_topics
        /\ \A e \in ResultsOf(r, "research") : e.data.report = loc[r].research_report
        /\ \A e \in ResultsOf(r, "generation") : e.data.raw_posts = loc[r].posts
        /\ mock[r].last.prompt = "research"
           => /\ mock[r].last.args.field = loc[r].field
              /\ \A e \in ResultsOf(r, "trending") :
                     mock[r].last.args.topic =
                         IF e.data.topics = <<>> THEN loc[r].field
                         ELSE FirstLine(e.data.topics)
        /\ mock[r].last.prompt = "generation"
           => \A e \in ResultsOf(r, "research") :
                  mock[r].last.args.report = e.data.report

\* C16: no step of generate_posts_stream, refine_post or get_trending_topics
\* writes the shared agent; a step of one run changes nothing of the other run
\* and nothing of a direct call, and a step of a direct call changes nothing of
\* a run; so under every interleaving of two runs each run's events and stage
\* payloads are those of the run executed alone with the same responses.
C16_Independent ==
    [][/\ agent' = agent
       /\ \A r \in Runs :
              RunState(r)' # RunState(r)
              => /\ \A q \in Runs \ {r} : RunState(q)' = RunState(q)
                 /\ UNCHANGED opVars
       /\ opVars' # opVars => UNCHANGED streamVars
       /\ \A r \in Runs : AsIfAlone(r)']_vars

\* both runs wait for their research model call, each with its own topics,
\* while a call of refine_post waits for its model call
C16_Witness ==
    /\ pc[1] = "a_llm_r"
    /\ pc[2] = "a_llm_r"
    /\ loc[1].trending_topics # loc[2].trending_topics
    /\ mock[1].last.args.topic # mock[2].last.args.topic
    /\ op.fn = "refine_post" /\ op.st = "a_llm"

(***************************************************************************)
(* Properties of the wire representation                                   *)
(***************************************************************************)
\* the keys of a serialized event meet the wire format
WireFields(keys, type) ==
    /\ {"type", "message"} \subseteq keys
    /\ keys \subseteq {"type", "message", "stage", "data"}
    /\ "stage" \in keys <=> type \in {"stage", "result"}
    /\ "data" \in keys <=> type \in {"result", "complete"}

MessageKeys(msg) == {msg[h][1] : h \in 1..Len(msg)}

FactoryType(factory) ==
    CASE factory = "stage_event" -> "stage"
      [] factory = "progress_event" -> "progress"
      [] factory = "result_event" -> "result"
      [] factory = "complete_event" -> "complete"
      [] factory = "error_event" -> "error"

\* C18: every event yielded by generate_posts_stream, every message the
\* transport made of one, and the to_dict of every AgentEvent built by a
\* factory has type and message, has stage exactly when its type is stage or
\* result, and has data exactly when its type is result or complete.
C18_WireFields ==
    /\ \A r \in Runs : \A j \in 1..Len(events[r]) :
           WireFields(DOMAIN events[r][j], events[r][j].type)
    /\ \A r \in Runs : \A j \in 1..Len(wire[r]) :
           WireFields(MessageKeys(wire[r][j]), JsonGet(wire[r][j], "type"))
    /\ built.factory # "none"
       => /\ built.dict.type = FactoryType(built.factory)
          /\ WireFields(DOMAIN built.dict, built.dict.type)

\* complete_event() has been serialized (its data is the empty dict) beside a
\* run that was forwarded up to its Complete event
C18_Witness ==
    /\ built.factory = "complete_event"
    /\ built.dict.message = DefaultCompleteMessage
    /\ built.dict.data = <<>>
    /\ Len(wire[1]) = 14

(***************************************************************************)
(* Properties of the prompt loader                                         *)
(***************************************************************************)
\* the step is a PromptLoader call of one of the methods given
LoaderStep(ops) == lastCall' # lastCall /\ lastCall'.op \in ops

\* the step is a get_prompt or get_template call for a name that the document
\* loaded by the end of the call does not hold
AbsentNameStep ==
    /\ LoaderStep({"get_prompt", "get_template"})
    /\ prompts_cache' # NoneDoc
    /\ lastCall'.name \notin Keys(prompts_cache')

\* the call failed with the not-found error naming every available prompt
NotFoundListing(call, doc) ==
    /\ call.outcome = "KeyError"
    /\ \E j \in 1..Len(call.message) : call.message[j] = call.name
    /\ \A n \in Keys(doc) :
           \E j \in 1..Len(call.message) : call.message[j] = n

FromSource(call) ==
    /\ call.read
    /\ source.status = "missing" => call.outcome = "FileNotFoundError"
    /\ source.status = "malformed" => call.outcome = "YAMLError"
    /\ (source.status = "ok" /\ source.doc # NoneDoc)
       => /\ call.op = "list_prompts"
             => call.outcome = "return" /\ call.value = Listed(source.doc)
          /\ (call.op = "get_prompt" /\ call.name \in Keys(source.doc))
             => /\ call.outcome = "return"
                /\ call.value = Lookup(source.doc, call.name)
          /\ (call.op = "get_template" /\ call.name \in Keys(source.doc))
             => LET data == Lookup(source.doc, call.name)
                IN  (data.kind = "dict" /\ data.system # Unset /\ data.human # Unset)
                    => /\ call.outcome = "return"
                       /\ call.value = [system |-> Strip(data.system),
                                         human |-> Strip(data.human)]
          /\ (call.op \in {"get_prompt", "get_template"}
              /\ call.name \notin Keys(source.doc))
             => call.outcome = "KeyError"

\* C20: reload() empties the raw document cache and the template cache and
\* returns None; the first get_prompt, get_template or list_prompts call after
\* a reload reads the file, returns what the file holds now (not what was
\* cached before the reload) and fails with FileNotFoundError or YAMLError if
\* the file is now missing or malformed.
C20_ReloadRereads ==
    [][/\ LoaderStep({"reload"})
          => /\ prompts_cache' = NoneDoc
             /\ \A n \in PromptNames : templates_cache'[n] = NotCached
             /\ lastCall'.outcome = "return"
             /\ lastCall'.value = <<>>
       /\ (lastCall.op = "reload"
           /\ LoaderStep({"get_prompt", "get_template", "list_prompts"}))
          => lastCall'.prev = "reload" /\ FromSource(lastCall')]_vars

\* the first call after a reload was get_template: it has read the file and
\* returned the template of what the file holds now
C20_Witness ==
    /\ lastCall.op = "get_template"
    /\ lastCall.prev = "reload"
    /\ lastCall.outcome = "return"
    /\ lastCall.read
    /\ lastCall.value = [system |-> SystemB, human |-> <<"Field: {field}">>]
    /\ source.doc = Dict(<<[name |-> "trending", data |-> Entry(SystemB, Human)]>>)

\* C21: get_template(name) called again after it returned a template returns a
\* template of equal content, whatever happened to the file in between; and
\* when get_template(name) is the first call after reload() and the file holds
\* what it held when the document behind the last template returned for that
\* name was loaded, it returns a template of equal content to that one.
C21_Idempotent ==
    [][LoaderStep({"get_template"})
       => /\ (lastCall.op = "get_template" /\ lastCall.outcome = "return"
              /\ lastCall'.name = lastCall.name)
             => /\ lastCall'.outcome = "return"
                /\ lastCall'.value = lastCall.value
          /\ (lastCall.op = "reload"
              /\ loadLog.served[lastCall'.name].value # NotCached
              /\ loadLog.served[lastCall'.name].from = source)
             => /\ lastCall'.outcome = "return"
                /\ lastCall'.read
                /\ lastCall'.value = loadLog.served[lastCall'.name].value]_vars

\* get_template("trending") was the first call after a reload, has read the
\* file again and returned the stripped template that was returned for the
\* name before the reload
C21_Witness ==
    /\ lastCall.op = "get_template"
    /\ lastCall.prev = "reload"
    /\ lastCall.name = "trending"
    /\ lastCall.outcome = "return"
    /\ lastCall.read
    /\ lastCall.value = [system |-> <<"You are analyst A.">>, human |-> <<"Field: {field}">>]
    /\ lastCall.before = lastCall.value
    /\ templates_cache["trending"] = lastCall.value

\* the names list_prompts returned hold the name
InListing(listing, name) == \E j \in 1..Len(listing) : listing[j] = name

\* C22: once list_prompts() has returned its names for the loaded document, a
\* name is among them if and only if get_prompt(name) and get_template(name)
\* succeed: every listed name is served by get_prompt and compiles to a
\* template, and every name get_template serves is listed.
C22_ListedIffServed ==
    [][(/\ lastCall.op = "list_prompts"
        /\ lastCall.outcome = "return"
        /\ LoaderStep({"get_prompt", "get_template"}))
       => /\ InListing(lastCall.value, lastCall'.name)
             => lastCall'.outcome = "return"
          /\ (lastCall'.op = "get_template" /\ lastCall'.outcome = "return")
             => InListing(lastCall.value, lastCall'.name)]_vars

(***************************************************************************)
(* Properties of refine_post                                               *)
(***************************************************************************)
\* the step is one of a refine_post call: its start, or the end of its model call
RefineStep ==
    /\ opVars' # opVars
    /\ \/ op.fn = "refine_post"
       \/ op'.fn = "refine_post"
       \/ Len(opLog') > Len(opLog) /\ Last(opLog').fn = "refine_post"

\* C23: with a credential, a step of refine_post changes nothing of the agent,
\* of any run of generate_posts_stream (position, locals, events, messages,
\* observed calls), of the events built or of the prompt loader; a call under
\* way has made one model call and no search; a finished call has made exactly
\* one model call and no search, and when it returned, it returned the str the
\* model call gave, as it was given.
C23_RefineStateless ==
    [][/\ RefineStep
          => /\ agent' = agent
             /\ UNCHANGED <<streamVars, searchVars, parseVars, eventVars, loaderVars>>
       /\ Credential
          => /\ op'.fn = "refine_post"
                => op'.st = "a_llm" /\ op'.llm = 1 /\ op'.search = 0 /\ op'.api = 0
             /\ \A j \in 1..Len(opLog') :
                    opLog'[j].fn = "refine_post"
                    => /\ opLog'[j].llm = 1
                       /\ opLog'[j].search = 0 /\ opLog'[j].api = 0
                       /\ opLog'[j].last.prompt = "refinement"
                       /\ opLog'[j].last.args =
                              [post |-> opLog'[j].post, feedback |-> opLog'[j].feedback]
                       /\ opLog'[j].st = "returned"
                          => opLog'[j].ret = PyStr(opLog'[j].llm_text)]_vars

\* while run 1 waits for its research model call, a refine_post call has
\* returned a text that a parse or a strip would have changed
C23_Witness ==
    /\ Credential
    /\ pc[1] = "a_llm_r"
    /\ events[1] # <<>>
    /\ Len(opLog) = 1
    /\ opLog[1].fn = "refine_post"
    /\ opLog[1].st = "returned"
    /\ opLog[1].llm = 1
    /\ opLog[1].ret = PyStr(<<"M", "W", "T51", "W">>)

(***************************************************************************)
(* Properties of the post content                                          *)
(***************************************************************************)
\* the content of every post is trimmed and not empty
NonEmptyTrimmed(posts) ==
    \A j \in 1..Len(posts) :
        /\ posts[j].content # <<>>
        /\ Strip(posts[j].content) = posts[j].content

\* C24: whatever the raw text, the empty and the whitespace-only text
\* included, every post PostParser.parse returned and every post delivered in
\* Result(generation) has trimmed content that is not empty.
C24_NonEmptyContent ==
    /\ parseOut.done => NonEmptyTrimmed(parseOut.posts)
    /\ \A r \in Runs : \A e \in GenerationResults(r) :
           NonEmptyTrimmed(e.data.posts)

(***************************************************************************)
(* Properties of the segments PostParser.parse accepts                     *)
(***************************************************************************)
\* the segments of the raw text, trimmed, that are long enough, in text order
AcceptedSegments(raw) ==
    LET trimmed == [j \in 1..Len(ReSplit(raw)) |-> Strip(ReSplit(raw)[j])]
    IN  SelectSeq(trimmed, LAMBDA seg : StrLen(seg) >= min_post_length)

FirstN(s, n) == SubSeq(s, 1, IF Len(s) <= n THEN Len(s) ELSE n)

Contents(posts) == [j \in 1..Len(posts) |-> posts[j].content]

\* C25 as stated: for every raw text the posts PostParser.parse returns are
\* exactly the first max_posts segments, in text order, whose trimmed length is
\* at least min_post_length; shorter and whitespace-only segments are dropped
\* and do not count.
C25_FirstAcceptedSegments ==
    parseOut.done
    => Contents(parseOut.posts) = FirstN(AcceptedSegments(parseIn), max_posts)

\* C25 amended: when at least one segment of the raw text has trimmed length
\* at least min_post_length, the posts PostParser.parse returns are exactly the
\* first max_posts such segments, in text order, however many shorter segments
\* precede or separate them; when no segment has, the result is not made of
\* segments: it is empty or the single Generated post holding the whole raw
\* text, trimmed.
C25_FirstAcceptedSegmentsOrFallback ==
    parseOut.done
    => IF AcceptedSegments(parseIn) # <<>>
       THEN /\ Contents(parseOut.posts) = FirstN(AcceptedSegments(parseIn), max_posts)
            /\ ~IsFallback(parseOut.posts)
       ELSE \/ parseOut.posts = <<>>
            \/ /\ IsFallback(parseOut.posts)
               /\ parseOut.posts[1].content = Strip(parseIn)

\* four segments long enough with a whitespace-only one between them: the
\* first three are the posts, the fourth is left out
C25_Witness ==
    /\ parseOut.done
    /\ parseIn = <<"T50", "M", "W", "M", "T50", "M", "W", "T51", "W", "M", "T50">>
    /\ Contents(parseOut.posts) = <<<<"T50">>, <<"T50">>, <<"T51">>>>

(***************************************************************************)
(* Properties of the research stage                                        *)
(***************************************************************************)
\* the step starts a research search of run r: a call of _search_with_gemini
\* after the one of the trending stage
ResearchSearchStarts(r) ==
    /\ mock[r].search >= 1
    /\ mock'[r].search = mock[r].search + 1

\* the events of run r end with Stage(research) and the three
\* 'Research query i/3' Progress events in declaration order
QueriesAnnounced(r) ==
    LET n == Len(events[r])
    IN  /\ n >= NumQueries + 1
        /\ EventKind(events[r][n - NumQueries]) = <<"stage", "research">>
        /\ \A i \in 1..NumQueries :
               events[r][n - NumQueries + i] =
                   ProgressEvent(<<"Research query ", ToString(i), "/3: ">>
                                 \o ResearchQueries(loc[r].field)[i])

\* C26: when a research search call starts, the run has already emitted all
\* three 'Research query i/3' Progress events, in declaration order, after
\* Stage(research); and the transport has forwarded them.
C26_ProgressBeforeSearches ==
    [][\A r \in Runs :
          ResearchSearchStarts(r)
          => /\ QueriesAnnounced(r)
             /\ Len(wire[r]) = Len(events[r])]_vars

\* the second research search is in flight, the others have not started, and
\* the last events are the three query Progress events
C26_Witness ==
    /\ pc[1] = "a_gather"
    /\ tasks[1][2].st = "inflight"
    /\ tasks[1][1].st = "scheduled"
    /\ tasks[1][3].st = "scheduled"
    /\ mock[1].search = 2
    /\ QueriesAnnounced(1)

(***************************************************************************)
(* Properties of the values handed from stage to stage                     *)
(***************************************************************************)
\* `line` is the first line of `text`: what precedes its first line break, or
\* the whole text if it has none
IsFirstLine(line, text) ==
    /\ IsPrefix(line, text)
    /\ \A j \in 1..Len(line) : line[j] # "\n"
    /\ Len(line) = Len(text) \/ text[Len(line) + 1] = "\n"

\* the step is a model call of run r with the given prompt
ModelCall(r, prompt) ==
    /\ mock'[r].llm = mock[r].llm + 1
    /\ mock'[r].last.prompt = prompt

\* C27: in every run, the topic given to the research model call is the first
\* line of the topics text the run delivered in Result(trending), or the field
\* if that text is empty; the report given to the generation model call is the
\* report the run delivered in Result(research).
C27_StageThreading ==
    [][\A r \in Runs :
          /\ ModelCall(r, "research")
             => /\ Cardinality(ResultsOf(r, "trending")) = 1
                /\ \A e \in ResultsOf(r, "trending") :
                       IF e.data.topics = <<>>
                       THEN mock'[r].last.args.topic = loc[r].field
                       ELSE IsFirstLine(mock'[r].last.args.topic, e.data.topics)
          /\ ModelCall(r, "generation")
             => /\ Cardinality(ResultsOf(r, "research")) = 1
                /\ \A e \in ResultsOf(r, "research") :
                       mock'[r].last.args.report = e.data.report]_vars

\* the research model call has been made with the first of the two lines of
\* the topics delivered in Result(trending)
C27_Witness ==
    /\ pc[1] = "a_llm_r"
    /\ mock[1].last.prompt = "research"
    /\ mock[1].last.args.topic = <<"AI agents">>
    /\ \E e \in ResultsOf(1, "trending") :
           e.data.topics = <<"AI agents", "\n", "Quantum">>

\* the generation model call has been made with the report delivered in
\* Result(research), after a trending call that returned the empty text
C27_WitnessReport ==
    /\ pc[1] = "a_llm_g"
    /\ mock[1].last.prompt = "generation"
    /\ mock[1].last.args.report = <<"report B">>
    /\ \E e \in ResultsOf(1, "research") : e.data.report = <<"report B">>
    /\ \E e \in ResultsOf(1, "trending") : e.data.topics = <<>>

(***************************************************************************)
(* Properties of the prompt caches                                         *)
(***************************************************************************)
\* C28: once a load of the prompts file has succeeded, whatever parseable
\* document it held, the empty document included, no get_prompt, get_template,
\* get_all_templates or list_prompts call reads the file again until reload()
\* is called.
C28_LoadedOnce ==
    [][(/\ loadLog.from # NoSource
        /\ LoaderStep({"get_prompt", "get_template", "get_all_templates",
                       "list_prompts"}))
       => ~lastCall'.read]_vars

\* C29: in every state the loader reaches by get_prompt, get_template,
\* get_all_templates, list_prompts and reload calls, failing ones included,
\* every name that has a compiled template in the template cache is a key of
\* the document held in the raw document cache; so a template cache that is
\* not empty implies a loaded raw document.
C29_CacheCoherence ==
    \A n \in PromptNames :
        templates_cache[n] # NotCached
        => /\ prompts_cache # NoneDoc
           /\ n \in Keys(prompts_cache)
           /\ Compile(Lookup(prompts_cache, n)) = Returned(templates_cache[n])

\* a template is cached, the file has been removed since, and the last call
\* was a lookup that failed on a name the cached document does not hold
C29_Witness ==
    /\ templates_cache["trending"] # NotCached
    /\ templates_cache["refinement"] = NotCached
    /\ source.status = "missing"
    /\ lastCall.op = "get_template"
    /\ lastCall.name = "refinement"
    /\ lastCall.outcome = "KeyError"

====
